---- MODULE Spec2Model ----
(***************************************************************************)
(* Verification model of the RAPIDS tutorial notebooks.                    *)
(*                                                                         *)
(* Each notebook is a kernel that runs its cells top to bottom.  The       *)
(* module holds one group of variables per modelled notebook fragment and  *)
(* one specification per group; a specification leaves the variables of    *)
(* the other groups at their idle values.                                  *)
(*                                                                         *)
(*   SpecDownload   dataset download cells (s3fs fetch-if-absent)          *)
(*   SpecImport     import cells with try/except ImportError fallbacks     *)
(*   SpecPipeline   the library calls of each notebook: fit, predict, metric *)
(*   SpecLabeler    cyBERT labeler(index_no, cols)                          *)
(*   SpecSubword    cyBERT subword_labeler(log_list, label_list)            *)
(*   SpecPad        cyBERT pad(x[:256], '[PAD]', 256)                       *)
(*   SpecEval       cyBERT evaluation loop                                  *)
(*   SpecSplit      XGBoost demo split cell                                 *)
(*   SpecFil        forest inference demo, XGBoost against FIL              *)
(*   SpecPickle     random forest demo, pickling                            *)
(*   SpecDga        DGA detection, training and inference                   *)
(*   SpecAsset      asset classification, train/test split                  *)
(*   SpecKmeans     K-Means comparison cell                                 *)
(***************************************************************************)
EXTENDS Integers, Sequences, FiniteSets, TLC

VARIABLES
    \* ---- dataset download cells ----
    files,        \* names of the files present in the working directory
    dl_nb,        \* the notebook whose kernel is running
    dl_cell,      \* index of the download/read cell being executed
    dl_phase,     \* "exists" | "get" | "read" | "done" | "error"
    existsSeen,   \* what path.exists returned in the current cell
    didGet,       \* fs.get was called in the current cell
    getLog,       \* every fs.get call made so far: [remote, local]
    checked,      \* files whose if-not-exists statement ran in this run
    reads,        \* every cudf.read_csv call: [file, checked]
    succeeded,    \* cells that have completed without an exception
    \* ---- import cells ----
    installed,    \* optional packages importable in the environment
    imp_nb,       \* the notebook whose import cell is running
    imp_pc,       \* index of the import statement being executed
    imp_phase,    \* "try" | "install" | "retry" | "done" | "error"
    installRan,   \* packages whose conda install command ran in this run
    retries,      \* per package: imports retried after an install
    escaped,      \* package whose ImportError left the cell, or NoPkg
    \* ---- model pipelines: fit, predict, metric ----
    pl_nb,        \* the notebook whose kernel is running
    pl_pc,        \* index of the next library call
    pl_phase,     \* "run" | "done" | "error"
    objs,         \* per model name: "unbound" | "unfitted" | "fitted"
    values,       \* prediction and metric names bound in the kernel
    artifacts,    \* model files on disk
    calls,        \* every predict/metric call: [kind, name, ready]
    \* ---- cyBERT: labeler ----
    raw_split,    \* logs_df.raw_preprocess[index_no].split()
    row,          \* per parsed column: str(logs_df[col][index_no])
    lb_phase,     \* "call" | "returned" | "raised"
    label_list,   \* the list labeler returned
    \* ---- cyBERT: subword_labeler ----
    tags,            \* the word-level labels of the log (an entry of label_list)
    subword_counts,  \* per word: the tokenizer's count of further sub-word pieces
    sw_phase,        \* "call" | "returned"
    subword_labels,  \* the list subword_labeler returned
    \* ---- cyBERT: pad ----
    heap,         \* the list objects: address -> contents
    x_ref,        \* address of the entry x of subword_labels
    x_before,     \* contents of x before the padding cell ran
    arg_ref,      \* address of the list passed to pad, 0 before the call
    padded_labels,\* addresses of the lists in padded_labels
    pad_phase,    \* "slice" | "pad" | "done"
    \* ---- cyBERT: evaluation loop ----
    input_mask,   \* attention mask of the validation example
    label_ids,    \* its true label ids
    logits,       \* argmax of the model output per position
    y_true,
    y_pred,
    ev_phase,     \* "batch" | "done" | "error"
    \* ---- XGBoost demo: split cell ----
    simulated,    \* what simulate_data returned (kept for reference)
    dataset,      \* the binding of dataset, <<>> once deleted
    n_rows,
    train_index,
    X,
    y,
    X_train,
    y_train,
    X_validation,
    y_validation,
    total,
    xs_phase,     \* "shape" | "xy" | "train" | "validation" | "check" | "done"
    \* ---- forest inference demo: XGBoost against FIL ----
    xgboost_model,       \* the booster: raw probability numerator per validation row
    model_file,          \* contents of 'xgb.model', <<>> when absent
    fm,                  \* the loaded FIL model, <<>> before the load
    trained_model_preds,
    fil_preds,
    preds_same,          \* what array_equal printed
    fil_phase,           \* "train" | "predict" | "load" | "fil" | "compare" | "done"
    \* ---- random forest demo: pickling ----
    cuml_model,          \* class per test row, <<>> when unbound
    y_test,
    sav_file,            \* contents of 'cuml_random_forest_model.sav'
    pickled_cuml_model,
    fil_preds_orig,
    fil_acc_orig,        \* number of correct rows, -1 before it is computed
    pred_after_pickling,
    fil_acc_after_pickling,
    rf_phase,     \* "fit" | "orig" | "dump" | "del" | "load" | "after" | "done" | "error"
    \* ---- DGA detection: training and inference ----
    dd,              \* rows of gdf the detector was fitted on, {} before training
    model_bin,       \* the saved model: the rows it was fitted on
    dga_detector,    \* the loaded model: the rows it was fitted on
    domain_test,     \* rows of gdf in the test part of the inference cell's split
    scored,          \* rows passed to dga_detector.predict
    dga_phase,       \* "train" | "save" | "load" | "split" | "predict" | "done"
    \* ---- asset classification: split ----
    win_events_gdf,  \* the label of each row
    X_test,          \* rows in the test part
    Y_train,         \* labels of the training rows, in row order
    Y_test,          \* labels of the test rows, in row order
    train_unique,    \* what Y_train.unique() showed
    test_unique,     \* what Y_test.unique() showed
    as_phase,        \* "split" | "train_labels" | "test_labels" | "done"
    \* ---- K-Means: comparison cell ----
    cuml_score,      \* adjusted Rand scores, in units of threshold / 2
    sk_score,
    passed,
    printed,         \* "" | "equal" | "NOT equal"
    km_phase         \* "score" | "compare" | "print" | "done"

dlVars  == <<files, dl_nb, dl_cell, dl_phase, existsSeen, didGet, getLog,
             checked, reads, succeeded>>
impVars == <<installed, imp_nb, imp_pc, imp_phase, installRan, retries, escaped>>
plVars  == <<pl_nb, pl_pc, pl_phase, objs, values, artifacts, calls>>
lbVars  == <<raw_split, row, lb_phase, label_list>>
swVars  == <<tags, subword_counts, sw_phase, subword_labels>>
padVars == <<heap, x_ref, x_before, arg_ref, padded_labels, pad_phase>>
evVars  == <<input_mask, label_ids, logits, y_true, y_pred, ev_phase>>
xsVars  == <<simulated, dataset, n_rows, train_index, X, y, X_train, y_train,
             X_validation, y_validation, total, xs_phase>>
filVars == <<xgboost_model, model_file, fm, trained_model_preds, fil_preds,
             preds_same, fil_phase>>
rfVars  == <<cuml_model, y_test, sav_file, pickled_cuml_model, fil_preds_orig,
             fil_acc_orig, pred_after_pickling, fil_acc_after_pickling, rf_phase>>
dgaVars == <<dd, model_bin, dga_detector, domain_test, scored, dga_phase>>
asVars  == <<win_events_gdf, X_test, Y_train, Y_test, train_unique, test_unique,
             as_phase>>
kmVars  == <<cuml_score, sk_score, passed, printed, km_phase>>
vars    == <<dlVars, impVars, plVars, lbVars, swVars, padVars, evVars,
             xsVars, filVars, rfVars, dgaVars, asVars, kmVars>>

\* what the actions of one group leave alone: the other groups
notDl  == <<impVars, plVars, lbVars, swVars, padVars, evVars,
             xsVars, filVars, rfVars, dgaVars, asVars, kmVars>>
notImp == <<dlVars, plVars, lbVars, swVars, padVars, evVars,
             xsVars, filVars, rfVars, dgaVars, asVars, kmVars>>
notPl  == <<dlVars, impVars, lbVars, swVars, padVars, evVars,
             xsVars, filVars, rfVars, dgaVars, asVars, kmVars>>
notLb  == <<dlVars, impVars, plVars, swVars, padVars, evVars,
             xsVars, filVars, rfVars, dgaVars, asVars, kmVars>>
notSw  == <<dlVars, impVars, plVars, lbVars, padVars, evVars,
             xsVars, filVars, rfVars, dgaVars, asVars, kmVars>>
notPad == <<dlVars, impVars, plVars, lbVars, swVars, evVars,
             xsVars, filVars, rfVars, dgaVars, asVars, kmVars>>
notEv  == <<dlVars, impVars, plVars, lbVars, swVars, padVars,
             xsVars, filVars, rfVars, dgaVars, asVars, kmVars>>
notXs  == <<dlVars, impVars, plVars, lbVars, swVars, padVars,
             evVars, filVars, rfVars, dgaVars, asVars, kmVars>>
notFil == <<dlVars, impVars, plVars, lbVars, swVars, padVars,
             evVars, xsVars, rfVars, dgaVars, asVars, kmVars>>
notRf  == <<dlVars, impVars, plVars, lbVars, swVars, padVars,
             evVars, xsVars, filVars, dgaVars, asVars, kmVars>>
notDga == <<dlVars, impVars, plVars, lbVars, swVars, padVars,
             evVars, xsVars, filVars, rfVars, asVars, kmVars>>
notAs  == <<dlVars, impVars, plVars, lbVars, swVars, padVars,
             evVars, xsVars, filVars, rfVars, dgaVars, kmVars>>
notKm  == <<dlVars, impVars, plVars, lbVars, swVars, padVars,
             evVars, xsVars, filVars, rfVars, dgaVars, asVars>>

(***************************************************************************)
(* Dataset download cells                                                  *)
(***************************************************************************)
S3_BASE_PATH       == "rapidsai-data/cyber/clx"
APACHE_SAMPLE_CSV  == "apache_sample_1k.csv"
CLAIR_TSV          == "Phishing_Dataset_Clair_Collection.tsv"
SPAM_TSV           == "spam_assassin_spam_200_20021010.tsv"
EASY_HAM_TSV       == "spam_assassin_easyham_200_20021010.tsv"
HARD_HAM_TSV       == "spam_assassin_hardham_200_20021010.tsv"
ENRON_TSV          == "enron_10000.tsv"
INPUT_CSV          == "benign_and_dga_domains.csv"
WINEVT_PREPROC_CSV == "win_events_features_preproc.csv"
NoFile             == "<none>"

DatasetFiles ==
    {APACHE_SAMPLE_CSV, CLAIR_TSV, SPAM_TSV, EASY_HAM_TSV, HARD_HAM_TSV,
     ENRON_TSV, INPUT_CSV, WINEVT_PREPROC_CSV}

\* A cell: the file its "if not path.exists(f): fs.get(...)" statement guards
\* (dl) and the file its cudf.read_csv statement reads (rd).
CybertCells ==
    << [dl |-> APACHE_SAMPLE_CSV, rd |-> NoFile],
       [dl |-> NoFile, rd |-> APACHE_SAMPLE_CSV] >>

PhishingCells ==
    << [dl |-> CLAIR_TSV, rd |-> CLAIR_TSV],
       [dl |-> SPAM_TSV, rd |-> SPAM_TSV],
       [dl |-> EASY_HAM_TSV, rd |-> EASY_HAM_TSV],
       [dl |-> HARD_HAM_TSV, rd |-> HARD_HAM_TSV],
       [dl |-> ENRON_TSV, rd |-> ENRON_TSV] >>

DgaCells ==
    << [dl |-> INPUT_CSV, rd |-> NoFile],
       [dl |-> NoFile, rd |-> INPUT_CSV] >>

AssetCells ==
    << [dl |-> WINEVT_PREPROC_CSV, rd |-> "win_events_features_preproc.csv"] >>

DownloadNotebooks == {"cybert", "phishing", "dga", "asset"}

DownloadCells(nb) ==
    CASE nb = "cybert"   -> CybertCells
      [] nb = "phishing" -> PhishingCells
      [] nb = "dga"      -> DgaCells
      [] nb = "asset"    -> AssetCells

\* fs.get(S3_BASE_PATH + "/" + f, f): the two arguments of the call
GetCall(f) == [remote |-> S3_BASE_PATH \o "/" \o f, local |-> f]

\* path.exists(f)
PathExists(f, fs) == f \in fs

NeedsDownloadNegationDropped(exists) == exists
\* "if not path.exists(f):" -- the branch is taken when the file is absent
NeedsDownload(exists) == ~exists

DlCell == DownloadCells(dl_nb)[dl_cell]

DlInit ==
    /\ files \in SUBSET DatasetFiles
    /\ dl_nb \in DownloadNotebooks
    /\ dl_cell = 1
    /\ dl_phase = "exists"
    /\ existsSeen = FALSE
    /\ didGet = FALSE
    /\ getLog = {}
    /\ checked = {}
    /\ reads = {}
    /\ succeeded = {}

DlIdle ==
    /\ files = {}
    /\ dl_nb = "cybert"
    /\ dl_cell = 1
    /\ dl_phase = "idle"
    /\ existsSeen = FALSE
    /\ didGet = FALSE
    /\ getLog = {}
    /\ checked = {}
    /\ reads = {}
    /\ succeeded = {}

\* The cell starts: evaluate "not path.exists(f)" and branch.
DlCheckExists ==
    /\ dl_phase = "exists"
    /\ didGet' = FALSE
    /\ IF DlCell.dl = NoFile
         THEN /\ dl_phase' = "read"
              /\ UNCHANGED <<existsSeen, checked>>
         ELSE /\ existsSeen' = PathExists(DlCell.dl, files)
              /\ checked' = checked \cup {DlCell.dl}
              /\ dl_phase' = IF NeedsDownload(PathExists(DlCell.dl, files))
                               THEN "get" ELSE "read"
    /\ UNCHANGED <<files, dl_nb, dl_cell, getLog, reads, succeeded>>
    /\ UNCHANGED notDl

\* fs = s3fs.S3FileSystem(anon=True); fs.get(remote, local) copies the object
DlGetOk ==
    /\ dl_phase = "get"
    /\ getLog' = getLog \cup {GetCall(DlCell.dl)}
    /\ files' = files \cup {GetCall(DlCell.dl).local}
    /\ didGet' = TRUE
    /\ dl_phase' = "read"
    /\ UNCHANGED <<dl_nb, dl_cell, existsSeen, checked, reads, succeeded>>
    /\ UNCHANGED notDl

\* fs.get raises (no network, no such object): the exception ends the run
DlGetRaises ==
    /\ dl_phase = "get"
    /\ getLog' = getLog \cup {GetCall(DlCell.dl)}
    /\ didGet' = TRUE
    /\ dl_phase' = "error"
    /\ UNCHANGED <<files, dl_nb, dl_cell, existsSeen, checked, reads, succeeded>>
    /\ UNCHANGED notDl

\* cudf.read_csv(f) where the cell has one; then the next cell
DlReadCsv ==
    /\ dl_phase = "read"
    /\ IF DlCell.rd # NoFile /\ ~PathExists(DlCell.rd, files)
         THEN \* FileNotFoundError
              /\ dl_phase' = "error"
              /\ UNCHANGED <<dl_cell, reads, succeeded>>
         ELSE /\ reads' = IF DlCell.rd = NoFile THEN reads
                          ELSE reads \cup {[file |-> DlCell.rd,
                                            checked |-> DlCell.rd \in checked]}
              /\ succeeded' = succeeded \cup {dl_cell}
              /\ IF dl_cell = Len(DownloadCells(dl_nb))
                   THEN dl_phase' = "done" /\ UNCHANGED dl_cell
                   ELSE dl_phase' = "exists" /\ dl_cell' = dl_cell + 1
    /\ UNCHANGED <<files, dl_nb, existsSeen, didGet, getLog, checked>>
    /\ UNCHANGED notDl

\* The user runs the notebook again from the top.
DlRunAgain ==
    /\ dl_phase \in {"done", "error"}
    /\ dl_cell' = 1
    /\ dl_phase' = "exists"
    /\ checked' = {}
    /\ didGet' = FALSE
    /\ UNCHANGED <<files, dl_nb, existsSeen, getLog, reads, succeeded>>
    /\ UNCHANGED notDl

DlNext ==
    \/ DlCheckExists
    \/ DlGetOk
    \/ DlGetRaises
    \/ DlReadCsv
    \/ DlRunAgain

\* C1: in every download cell fs.get is called exactly when path.exists
\* reported the file absent, with remote "rapidsai-data/cyber/clx/" + name and
\* local target name; a file that is present is never fetched, a cell that
\* has completed once does not download when it is run again, and every
\* cudf.read_csv of a dataset file comes after that file's presence check.
C1_FetchIffAbsent ==
    /\ dl_phase = "get" => (~existsSeen /\ DlCell.dl \notin files)
    /\ (dl_phase = "read" /\ DlCell.dl # NoFile) => (didGet <=> ~existsSeen)
    /\ (dl_phase = "error" /\ DlCell.dl # NoFile) => (didGet <=> ~existsSeen)
    /\ \A c \in getLog :
          /\ c.local \in DatasetFiles
          /\ c.remote = "rapidsai-data/cyber/clx/" \o c.local
    /\ dl_phase = "get" => dl_cell \notin succeeded
    /\ \A r \in reads : r.checked

\* C1 witness: a cell that downloaded its file in an earlier run is run again,
\* finds the file present and goes on to read_csv without calling fs.get.
C1_Witness ==
    /\ dl_phase = "read"
    /\ DlCell.dl # NoFile
    /\ existsSeen
    /\ ~didGet
    /\ GetCall(DlCell.dl) \in getLog
    /\ dl_cell \in succeeded
    /\ reads # {}

(***************************************************************************)
(* Import cells                                                            *)
(***************************************************************************)
NoPkg == "<none>"
OptionalPkgs == {"s3fs", "seqeval", "clx", "pytest", "matplotlib"}

\* The statements of each import cell that import an optional package, in
\* source order.  guarded: the import sits in "try: ... except ImportError:
\* !conda install ...; import ...".
CybertImports ==
    << [pkg |-> "seqeval", guarded |-> FALSE],   \* from seqeval.metrics import ...
       [pkg |-> "seqeval", guarded |-> TRUE],
       [pkg |-> "s3fs", guarded |-> TRUE] >>

PhishingImports ==
    << [pkg |-> "clx", guarded |-> TRUE],
       [pkg |-> "s3fs", guarded |-> TRUE] >>

DgaImports ==
    << [pkg |-> "s3fs", guarded |-> TRUE],
       [pkg |-> "clx", guarded |-> TRUE],
       [pkg |-> "clx", guarded |-> FALSE],       \* from clx.analytics.dga_detector import
       [pkg |-> "clx", guarded |-> FALSE],       \* from clx.utils.data.dataloader import
       [pkg |-> "clx", guarded |-> FALSE] >>     \* from clx.analytics.dga_dataset import

AssetImports ==
    << [pkg |-> "s3fs", guarded |-> TRUE],
       [pkg |-> "clx", guarded |-> TRUE] >>

FilImports ==
    << [pkg |-> "pytest", guarded |-> TRUE] >>

KmeansImports ==
    << [pkg |-> "matplotlib", guarded |-> FALSE], \* import matplotlib.pyplot as plt
       [pkg |-> "matplotlib", guarded |-> TRUE] >>

ImportNotebooks == {"cybert", "phishing", "dga", "asset", "fil", "kmeans"}

ImportCell(nb) ==
    CASE nb = "cybert"   -> CybertImports
      [] nb = "phishing" -> PhishingImports
      [] nb = "dga"      -> DgaImports
      [] nb = "asset"    -> AssetImports
      [] nb = "fil"      -> FilImports
      [] nb = "kmeans"   -> KmeansImports

GuardedPkgs(nb) ==
    {ImportCell(nb)[i].pkg : i \in {j \in 1..Len(ImportCell(nb)) : ImportCell(nb)[j].guarded}}

ImpStmt == ImportCell(imp_nb)[imp_pc]

ImpInit ==
    /\ installed \in SUBSET OptionalPkgs
    /\ imp_nb \in ImportNotebooks
    /\ imp_pc = 1
    /\ imp_phase = "try"
    /\ installRan = {}
    /\ retries = [p \in OptionalPkgs |-> 0]
    /\ escaped = NoPkg

ImpIdle ==
    /\ installed = {}
    /\ imp_nb = "cybert"
    /\ imp_pc = 1
    /\ imp_phase = "idle"
    /\ installRan = {}
    /\ retries = [p \in OptionalPkgs |-> 0]
    /\ escaped = NoPkg

ImpAdvance ==
    IF imp_pc = Len(ImportCell(imp_nb))
      THEN imp_phase' = "done" /\ UNCHANGED imp_pc
      ELSE imp_phase' = "try" /\ imp_pc' = imp_pc + 1

\* The import statement (the try body, or a bare import) succeeds.
ImpImportOk ==
    /\ imp_phase = "try"
    /\ ImpStmt.pkg \in installed
    /\ ImpAdvance
    /\ UNCHANGED <<installed, imp_nb, installRan, retries, escaped>>
    /\ UNCHANGED notImp

\* The try body raises ImportError and the except clause catches it.
ImpCaught ==
    /\ imp_phase = "try"
    /\ ImpStmt.pkg \notin installed
    /\ ImpStmt.guarded
    /\ imp_phase' = "install"
    /\ UNCHANGED <<installed, imp_nb, imp_pc, installRan, retries, escaped>>
    /\ UNCHANGED notImp

\* A bare import raises ImportError: nothing catches it, the cell stops.
ImpUnguardedRaises ==
    /\ imp_phase = "try"
    /\ ImpStmt.pkg \notin installed
    /\ ~ImpStmt.guarded
    /\ escaped' = ImpStmt.pkg
    /\ imp_phase' = "error"
    /\ UNCHANGED <<installed, imp_nb, imp_pc, installRan, retries>>
    /\ UNCHANGED notImp

\* "!conda install -c <channel> -y <pkg>": a shell escape; it installs the
\* package or fails, and a failure raises nothing.
ImpCondaInstall ==
    /\ imp_phase = "install"
    /\ installRan' = installRan \cup {ImpStmt.pkg}
    /\ \/ installed' = installed \cup {ImpStmt.pkg}
       \/ installed' = installed
    /\ imp_phase' = "retry"
    /\ UNCHANGED <<imp_nb, imp_pc, retries, escaped>>
    /\ UNCHANGED notImp

\* The import repeated inside the except clause.
ImpRetry ==
    /\ imp_phase = "retry"
    /\ retries' = [retries EXCEPT ![ImpStmt.pkg] = @ + 1]
    /\ IF ImpStmt.pkg \in installed
         THEN ImpAdvance /\ UNCHANGED escaped
         ELSE /\ escaped' = ImpStmt.pkg
              /\ imp_phase' = "error"
              /\ UNCHANGED imp_pc
    /\ UNCHANGED <<installed, imp_nb, installRan>>
    /\ UNCHANGED notImp

ImpNext ==
    \/ ImpImportOk
    \/ ImpCaught
    \/ ImpUnguardedRaises
    \/ ImpCondaInstall
    \/ ImpRetry

\* C2: for every optional package an import cell guards with try/except
\* ImportError, a missing package leads to the conda install command and one
\* retried import; no ImportError for such a package leaves the cell before
\* its install command has run.
C2_NoEscapeBeforeInstall ==
    /\ escaped \in GuardedPkgs(imp_nb) => escaped \in installRan
    /\ \A p \in OptionalPkgs : retries[p] <= 1
    /\ \A p \in OptionalPkgs : retries[p] = 1 => p \in installRan

(***************************************************************************)
(* Model pipelines: construct, fit, predict, metric                        *)
(***************************************************************************)
None == "-"

\* The library calls of a notebook that touch a model, in cell order.
New(o)          == [op |-> "new", obj |-> o, file |-> None, ins |-> {}, out |-> None]
Fit(o)          == [op |-> "fit", obj |-> o, file |-> None, ins |-> {}, out |-> None]
Train(o)        == [op |-> "train", obj |-> o, file |-> None, ins |-> {}, out |-> None]
Predict(o, v)   == [op |-> "predict", obj |-> o, file |-> None, ins |-> {}, out |-> v]
Evaluate(o, v)  == [op |-> "evaluate", obj |-> o, file |-> None, ins |-> {}, out |-> v]
Metric(i, v)    == [op |-> "metric", obj |-> None, file |-> None, ins |-> i, out |-> v]
Save(o, f)      == [op |-> "save", obj |-> o, file |-> f, ins |-> {}, out |-> None]
Load(f, o)      == [op |-> "load", obj |-> o, file |-> f, ins |-> {}, out |-> None]
Del(o)          == [op |-> "del", obj |-> o, file |-> None, ins |-> {}, out |-> None]

CybertPipeline ==
    << New("model"),                              \* BertForTokenClassification.from_pretrained
       Fit("model"),                              \* training loop, 2 epochs
       Predict("model", "y_pred"),                \* evaluation loop
       Metric({"y_pred"}, "f1_score"),
       Metric({"y_pred"}, "accuracy_score"),
       Metric({"y_pred"}, "classification_report") >>

PhishingPipeline ==
    << New("seq_classifier"),                     \* SequenceClassifier(); init_model
       Fit("seq_classifier"), Evaluate("seq_classifier", "acc_clair"),
       Fit("seq_classifier"), Evaluate("seq_classifier", "acc_assassin"),
       Fit("seq_classifier"), Evaluate("seq_classifier", "acc_clair_assassin"),
       Fit("seq_classifier"), Evaluate("seq_classifier", "acc_all") >>

RandomForestPipelinePredictFirst ==
    << New("sk_model"), Fit("sk_model"),
       Predict("sk_model", "sk_predict"), Metric({"sk_predict"}, "sk_acc"),
       New("cuml_model"),
       Predict("cuml_model", "fil_preds_orig"),
       Fit("cuml_model"),
       Metric({"fil_preds_orig"}, "fil_acc_orig") >>
RandomForestPipeline ==
    << New("sk_model"), Fit("sk_model"),
       Predict("sk_model", "sk_predict"), Metric({"sk_predict"}, "sk_acc"),
       New("cuml_model"), Fit("cuml_model"),
       Predict("cuml_model", "fil_preds_orig"),
       Metric({"fil_preds_orig"}, "fil_acc_orig"),
       Save("cuml_model", "cuml_random_forest_model.sav"),
       Del("cuml_model"),
       Load("cuml_random_forest_model.sav", "pickled_cuml_model"),
       Predict("pickled_cuml_model", "pred_after_pickling"),
       Metric({"pred_after_pickling"}, "fil_acc_after_pickling") >>

NearestNeighborsPipeline ==
    << New("knn_sk"), Fit("knn_sk"), Predict("knn_sk", "D_sk"),
       New("knn_cuml"), Fit("knn_cuml"), Predict("knn_cuml", "D_cuml"),
       Metric({"D_sk", "D_cuml"}, "distances_equal"),
       Metric({"D_sk", "D_cuml"}, "indexes_equal") >>

ForestInferencePipeline ==
    << Train("xgboost_model"),                    \* xgb.train inside train_xgboost_model
       Save("xgboost_model", "xgb.model"),        \* bst.save_model(model_path)
       Predict("xgboost_model", "trained_model_preds"),
       Load("xgb.model", "fm"),                   \* ForestInference.load
       Predict("fm", "fil_preds"),
       Metric({"trained_model_preds", "fil_preds"}, "array_equal") >>

KmeansPipeline ==
    << New("kmeans_sk"), Fit("kmeans_sk"),
       New("kmeans_cuml"), Fit("kmeans_cuml"),
       Predict("kmeans_cuml", "cuml_labels"),     \* kmeans_cuml.labels_
       Metric({"cuml_labels"}, "cuml_score"),
       Predict("kmeans_sk", "sk_labels"),         \* kmeans_sk.labels_
       Metric({"sk_labels"}, "sk_score"),
       Metric({"cuml_score", "sk_score"}, "passed") >>

DgaPipeline ==
    << New("dd"),                                 \* DGADetector(lr=LR); init_model
       Fit("dd"),                                 \* dd.train_model
       Save("dd", "rnn_classifier.bin"),
       New("dga_detector"),
       Load("rnn_classifier.bin", "dga_detector"),
       Predict("dga_detector", "pred_results"),
       Metric({"pred_results"}, "accuracy_score"),
       Metric({"pred_results"}, "average_precision") >>

AssetPipeline ==
    << New("ac"), Fit("ac"),
       Predict("ac", "pred_results"),
       Metric({"pred_results"}, "f1_score_"),
       Metric({"pred_results"}, "confusion_matrix") >>

XgboostDemoPipeline ==
    << Train("bst") >>

PipelineNotebooks ==
    {"cybert", "phishing", "random_forest", "nearest_neighbors",
     "forest_inference", "kmeans", "dga", "asset", "xgboost_demo"}

Pipeline(nb) ==
    CASE nb = "cybert"            -> CybertPipeline
      [] nb = "phishing"          -> PhishingPipeline
      [] nb = "random_forest"     -> RandomForestPipeline
      [] nb = "nearest_neighbors" -> NearestNeighborsPipeline
      [] nb = "forest_inference"  -> ForestInferencePipeline
      [] nb = "kmeans"            -> KmeansPipeline
      [] nb = "dga"               -> DgaPipeline
      [] nb = "asset"             -> AssetPipeline
      [] nb = "xgboost_demo"      -> XgboostDemoPipeline

ModelNames ==
    UNION {{Pipeline(nb)[i].obj : i \in 1..Len(Pipeline(nb))} : nb \in PipelineNotebooks}
        \ {None}

ModelFiles ==
    UNION {{Pipeline(nb)[i].file : i \in 1..Len(Pipeline(nb))} : nb \in PipelineNotebooks}
        \ {None}

PlStep == Pipeline(pl_nb)[pl_pc]

PlInit ==
    /\ pl_nb \in PipelineNotebooks
    /\ pl_pc = 1
    /\ pl_phase = "run"
    /\ objs = [o \in ModelNames |-> "unbound"]
    /\ values = {}
    /\ artifacts = {}
    /\ calls = {}

PlIdle ==
    /\ pl_nb = "cybert"
    /\ pl_pc = 1
    /\ pl_phase = "idle"
    /\ objs = [o \in ModelNames |-> "unbound"]
    /\ values = {}
    /\ artifacts = {}
    /\ calls = {}

PlAdvance ==
    IF pl_pc = Len(Pipeline(pl_nb))
      THEN pl_phase' = "done" /\ UNCHANGED pl_pc
      ELSE pl_phase' = "run" /\ pl_pc' = pl_pc + 1

PlRaise == pl_phase' = "error" /\ UNCHANGED pl_pc

\* estimator constructed: bound, not fitted
PlNew ==
    /\ pl_phase = "run" /\ PlStep.op = "new"
    /\ objs' = [objs EXCEPT ![PlStep.obj] = "unfitted"]
    /\ PlAdvance
    /\ UNCHANGED <<pl_nb, values, artifacts, calls>>
    /\ UNCHANGED notPl

\* fit / train_model / training loop on a bound estimator (NameError otherwise)
PlFit ==
    /\ pl_phase = "run" /\ PlStep.op = "fit"
    /\ IF objs[PlStep.obj] = "unbound"
         THEN PlRaise /\ UNCHANGED objs
         ELSE PlAdvance /\ objs' = [objs EXCEPT ![PlStep.obj] = "fitted"]
    /\ UNCHANGED <<pl_nb, values, artifacts, calls>>
    /\ UNCHANGED notPl

\* xgb.train: returns a trained booster
PlTrain ==
    /\ pl_phase = "run" /\ PlStep.op = "train"
    /\ objs' = [objs EXCEPT ![PlStep.obj] = "fitted"]
    /\ PlAdvance
    /\ UNCHANGED <<pl_nb, values, artifacts, calls>>
    /\ UNCHANGED notPl

\* predict / kneighbors / model(...) / labels_: the call is logged with the
\* state of the model it is made on; an unfitted or unbound model raises
PlPredict ==
    /\ pl_phase = "run" /\ PlStep.op = "predict"
    /\ calls' = calls \cup {[kind |-> "predict", name |-> PlStep.out,
                             ready |-> objs[PlStep.obj] = "fitted"]}
    /\ IF objs[PlStep.obj] = "fitted"
         THEN PlAdvance /\ values' = values \cup {PlStep.out}
         ELSE PlRaise /\ UNCHANGED values
    /\ UNCHANGED <<pl_nb, objs, artifacts>>
    /\ UNCHANGED notPl

\* evaluate_model: predicts and scores inside one library call
PlEvaluate ==
    /\ pl_phase = "run" /\ PlStep.op = "evaluate"
    /\ calls' = calls \cup {[kind |-> "predict", name |-> PlStep.out,
                             ready |-> objs[PlStep.obj] = "fitted"],
                            [kind |-> "metric", name |-> PlStep.out,
                             ready |-> objs[PlStep.obj] = "fitted"]}
    /\ IF objs[PlStep.obj] = "fitted"
         THEN PlAdvance /\ values' = values \cup {PlStep.out}
         ELSE PlRaise /\ UNCHANGED values
    /\ UNCHANGED <<pl_nb, objs, artifacts>>
    /\ UNCHANGED notPl

\* accuracy_score / f1_score / array_equal / ...: consumes bound predictions
PlMetric ==
    /\ pl_phase = "run" /\ PlStep.op = "metric"
    /\ calls' = calls \cup {[kind |-> "metric", name |-> PlStep.out,
                             ready |-> PlStep.ins \subseteq values]}
    /\ IF PlStep.ins \subseteq values
         THEN PlAdvance /\ values' = values \cup {PlStep.out}
         ELSE PlRaise /\ UNCHANGED values
    /\ UNCHANGED <<pl_nb, objs, artifacts>>
    /\ UNCHANGED notPl

\* pickle.dump / save_model
PlSave ==
    /\ pl_phase = "run" /\ PlStep.op = "save"
    /\ IF objs[PlStep.obj] = "unbound"
         THEN PlRaise /\ UNCHANGED artifacts
         ELSE PlAdvance /\ artifacts' = artifacts \cup {PlStep.file}
    /\ UNCHANGED <<pl_nb, objs, values, calls>>
    /\ UNCHANGED notPl

\* pickle.load / load_model / ForestInference.load
PlLoad ==
    /\ pl_phase = "run" /\ PlStep.op = "load"
    /\ IF PlStep.file \in artifacts
         THEN PlAdvance /\ objs' = [objs EXCEPT ![PlStep.obj] = "fitted"]
         ELSE PlRaise /\ UNCHANGED objs
    /\ UNCHANGED <<pl_nb, values, artifacts, calls>>
    /\ UNCHANGED notPl

\* del name
PlDel ==
    /\ pl_phase = "run" /\ PlStep.op = "del"
    /\ IF objs[PlStep.obj] = "unbound"
         THEN PlRaise /\ UNCHANGED objs
         ELSE PlAdvance /\ objs' = [objs EXCEPT ![PlStep.obj] = "unbound"]
    /\ UNCHANGED <<pl_nb, values, artifacts, calls>>
    /\ UNCHANGED notPl

\* Any library call may fail (out of GPU memory, ...): the run stops there.
PlCallFails ==
    /\ pl_phase = "run"
    /\ PlRaise
    /\ UNCHANGED <<pl_nb, objs, values, artifacts, calls>>
    /\ UNCHANGED notPl

\* Kernel restarted and the notebook run again from the top; files stay.
PlRestartRunAll ==
    /\ pl_phase \in {"done", "error"}
    /\ pl_pc' = 1
    /\ pl_phase' = "run"
    /\ objs' = [o \in ModelNames |-> "unbound"]
    /\ values' = {}
    /\ UNCHANGED <<pl_nb, artifacts, calls>>
    /\ UNCHANGED notPl

PlNext ==
    \/ PlNew
    \/ PlFit
    \/ PlTrain
    \/ PlPredict
    \/ PlEvaluate
    \/ PlMetric
    \/ PlSave
    \/ PlLoad
    \/ PlDel
    \/ PlCallFails
    \/ PlRestartRunAll

\* C3: run top to bottom, every predict/kneighbors/evaluate call is made on a
\* model that has already been fitted, trained or loaded, and every metric is
\* computed from predictions that already exist.
C3_PredictAfterFit ==
    /\ \A c \in calls : c.ready
    /\ \A v \in values : \E c \in calls : c.name = v /\ c.ready

\* C3 witness: the random forest notebook has run to its end, having
\* predicted with the fitted and the re-loaded model and scored both.
C3_Witness ==
    /\ pl_nb = "random_forest"
    /\ pl_phase = "done"
    /\ {"fil_preds_orig", "pred_after_pickling", "fil_acc_after_pickling"} \subseteq values
    /\ [kind |-> "predict", name |-> "pred_after_pickling", ready |-> TRUE] \in calls

(***************************************************************************)
(* Python list and string helpers                                          *)
(***************************************************************************)
Min(a, b) == IF a < b THEN a ELSE b
Max(a, b) == IF a > b THEN a ELSE b

\* [x] * n  (the empty list when n <= 0)
Repeat(x, n) == [i \in 1..Max(n, 0) |-> x]

\* l[a:b] for 0 <= a: the slice stops at the end of the list
PySlice(l, a, b) == SubSeq(l, a + 1, Min(b, Len(l)))

\* l[a:b] = new: the slice is replaced, whatever the length of new
PySliceAssign(l, a, b, new) ==
    SubSeq(l, 1, Min(a, Len(l))) \o new \o SubSeq(l, Min(Max(a, b), Len(l)) + 1, Len(l))

\* all sequences over S of length at most n
SeqUpTo(S, n) == UNION {[1..k -> S] : k \in 0..n}

\* A string is modelled as a sequence of pieces: whole words and the blank
\* " " (a run of whitespace).  Two words are never adjacent.
Blank == " "
IsString(t) == \A i \in 1..(Len(t) - 1) : t[i] = Blank \/ t[i + 1] = Blank

\* str.split(): the words, whitespace dropped
RECURSIVE Split(_)
Split(t) ==
    IF t = <<>> THEN <<>>
    ELSE IF Head(t) = Blank THEN Split(Tail(t))
    ELSE <<Head(t)>> \o Split(Tail(t))

(***************************************************************************)
(* cyBERT: labeler(index_no, cols)                                         *)
(***************************************************************************)
MaxWords == 3      \* words in a raw log line
MaxPieces == 3     \* pieces in a parsed column value

Words == {"a", "-"}
cols == <<"c1", "c2">>

\* the values labeler skips: {'', '-', 'None', 'NaN'}
SkippedValues == {<<>>, <<"-">>, <<"None">>, <<"NaN">>}

ColumnValues == {t \in SeqUpTo(Words \cup {Blank}, MaxPieces) : IsString(t)}

MatchAtFirstWordOnly(raw, lab, sublist, ind) ==
    PySlice(lab, ind, ind + Len(sublist)) = Repeat("O", Len(sublist))
\* (raw_split[ind:ind+sublist_len]==sublist) and
\* (label_list[ind:ind+sublist_len] == ['O'] * sublist_len)
MatchAt(raw, lab, sublist, ind) ==
    /\ PySlice(raw, ind, ind + Len(sublist)) = sublist
    /\ PySlice(lab, ind, ind + Len(sublist)) = Repeat("O", Len(sublist))

\* label_list[ind] = 'B-'+col
\* label_list[ind+1:ind+sublist_len] = ['I-'+col] * (sublist_len - 1)
MarkAt(lab, sublist, col, ind) ==
    PySliceAssign([lab EXCEPT ![ind + 1] = "B-" \o col],
                  ind + 1, ind + Len(sublist),
                  Repeat("I-" \o col, Len(sublist) - 1))

\* for ind in (i for i,el in enumerate(raw_split) if el==sublist[0]): ...
\* ind is the 0-based index the loop has reached.
RECURSIVE ScanColumn(_, _, _, _, _, _)
ScanColumn(raw, lab, sublist, col, ind, match_count) ==
    IF ind >= Len(raw) THEN lab
    ELSE IF /\ raw[ind + 1] = sublist[1]
            /\ match_count < 1
            /\ MatchAt(raw, lab, sublist, ind)
      THEN ScanColumn(raw, MarkAt(lab, sublist, col, ind), sublist, col, ind + 1, 1)
      ELSE ScanColumn(raw, lab, sublist, col, ind + 1, match_count)

\* for col in cols: ...   k is the index of the column reached.  The result
\* is [raised, val]: sublist[0] raises IndexError when the value is all
\* whitespace and the generator yields at least one candidate to test.
RECURSIVE LabelColumns(_, _, _, _)
LabelColumns(raw, r, k, lab) ==
    IF k > Len(cols) THEN [raised |-> FALSE, val |-> lab]
    ELSE IF r[cols[k]] \in SkippedValues
      THEN LabelColumns(raw, r, k + 1, lab)
    ELSE IF Split(r[cols[k]]) = <<>>
      THEN IF raw = <<>>
             THEN LabelColumns(raw, r, k + 1, lab)
             ELSE [raised |-> TRUE, val |-> lab]
    ELSE LabelColumns(raw, r, k + 1,
                      ScanColumn(raw, lab, Split(r[cols[k]]), cols[k], 0, 0))

labeler(raw, r) == LabelColumns(raw, r, 1, Repeat("O", Len(raw)))

ColSet == {cols[i] : i \in 1..Len(cols)}

LbInit ==
    /\ raw_split \in SeqUpTo(Words, MaxWords)
    /\ row \in [ColSet -> ColumnValues]
    /\ lb_phase = "call"
    /\ label_list = <<>>

LbIdle ==
    /\ raw_split = <<>>
    /\ row = [c \in ColSet |-> <<>>]
    /\ lb_phase = "idle"
    /\ label_list = <<>>

\* labels.append(labeler(indx, cols))
LbReturn ==
    /\ lb_phase = "call"
    /\ ~labeler(raw_split, row).raised
    /\ label_list' = labeler(raw_split, row).val
    /\ lb_phase' = "returned"
    /\ UNCHANGED <<raw_split, row>>
    /\ UNCHANGED notLb

\* sublist[0] raised IndexError: nothing is returned
LbRaise ==
    /\ lb_phase = "call"
    /\ labeler(raw_split, row).raised
    /\ lb_phase' = "raised"
    /\ UNCHANGED <<raw_split, row, label_list>>
    /\ UNCHANGED notLb

LbNext ==
    \/ LbReturn
    \/ LbRaise

\* the words of column c's value occur in the raw line from word ind (1-based)
OccursAt(c, ind) ==
    /\ row[c] \notin SkippedValues
    /\ Split(row[c]) # <<>>
    /\ ind + Len(Split(row[c])) - 1 <= Len(raw_split)
    /\ SubSeq(raw_split, ind, ind + Len(Split(row[c])) - 1) = Split(row[c])

\* C4: labeler returns one label per whitespace-separated word of the raw
\* line, and a word keeps 'O' unless it lies in an occurrence of a parsed
\* column's value, whose first word is then 'B-'+col and the others 'I-'+col.
C4_OneLabelPerWord ==
    lb_phase = "returned" =>
        /\ Len(label_list) = Len(raw_split)
        /\ \A p \in 1..Len(label_list) :
              label_list[p] # "O" =>
                 \E c \in ColSet : \E ind \in 1..p :
                    /\ OccursAt(c, ind)
                    /\ p <= ind + Len(Split(row[c])) - 1
                    /\ label_list[p] = IF p = ind THEN "B-" \o c ELSE "I-" \o c

\* C4 witness: a two-word value of c1 and a one-word value of c2 are both
\* found, the second only after the words c1 has taken.
C4_Witness ==
    /\ lb_phase = "returned"
    /\ raw_split = <<"a", "a", "a">>
    /\ label_list = <<"B-c1", "I-c1", "B-c2">>

(***************************************************************************)
(* cyBERT: subword_labeler(log_list, label_list)                           *)
(***************************************************************************)
MaxTags == 3       \* words in a log
MaxSub == 2        \* further sub-word pieces of one word

\* the labels labeler produces for one parsed column
TagSet == {"O", "B-c1", "I-c1"}

\* for i, tag in enumerate(tags):
\*     temp_tags.append(tag); temp_tags.extend('X' * subword_counts[i].item())
\* i is the 1-based index of the tag reached.
RECURSIVE TagLoop(_, _, _, _)
TagLoop(tgs, counts, i, temp_tags) ==
    IF i > Len(tgs) THEN temp_tags
    ELSE TagLoop(tgs, counts, i + 1,
                 Append(temp_tags, tgs[i]) \o Repeat("X", counts[i]))

RECURSIVE TagLoopPiecesFirst(_, _, _, _)
TagLoopPiecesFirst(tgs, counts, i, temp_tags) ==
    IF i > Len(tgs) THEN temp_tags
    ELSE TagLoopPiecesFirst(tgs, counts, i + 1,
                 Append(temp_tags \o Repeat("X", counts[i]), tgs[i]))

SubwordTagsPiecesFirst(tgs, counts) == TagLoopPiecesFirst(tgs, counts, 1, <<>>)
\* the body of the outer loop: temp_tags = []; ...; subword_labels.append(temp_tags)
SubwordTags(tgs, counts) == TagLoop(tgs, counts, 1, <<>>)

\* for log, tags in zip(log_list, label_list): ...   counts_list[k] stands for
\* the tokenizer's counts of log_list[k]
subword_labeler(counts_list, label_lists) ==
    [k \in 1..Min(Len(counts_list), Len(label_lists)) |->
        SubwordTags(label_lists[k], counts_list[k])]

SwInit ==
    /\ tags \in SeqUpTo(TagSet, MaxTags)
    /\ subword_counts \in SeqUpTo(0..MaxSub, MaxTags)
    /\ Len(subword_counts) = Len(tags)     \* one word per label (labeler)
    /\ sw_phase = "call"
    /\ subword_labels = <<>>

SwIdle ==
    /\ tags = <<>>
    /\ subword_counts = <<>>
    /\ sw_phase = "idle"
    /\ subword_labels = <<>>

\* subword_labels = subword_labeler(logs, labels)
SwReturn ==
    /\ sw_phase = "call"
    /\ subword_labels' = subword_labeler(<<subword_counts>>, <<tags>>)
    /\ sw_phase' = "returned"
    /\ UNCHANGED <<tags, subword_counts>>
    /\ UNCHANGED notSw

SwNext ==
    \/ SwReturn

RECURSIVE SumSeq(_)
SumSeq(q) == IF q = <<>> THEN 0 ELSE Head(q) + SumSeq(Tail(q))

RECURSIVE WithoutX(_)
WithoutX(q) ==
    IF q = <<>> THEN <<>>
    ELSE IF Head(q) = "X" THEN WithoutX(Tail(q))
    ELSE <<Head(q)>> \o WithoutX(Tail(q))

\* where the i-th tag lands: after the earlier tags and their pieces
TagPosition(i) == i + SumSeq(SubSeq(subword_counts, 1, i - 1))

\* C5: subword_labeler keeps the tags in order and puts exactly
\* subword_counts[i] labels 'X' after the i-th tag; without the 'X' entries
\* the output is the tag list, and its length is len(tags) + sum of counts.
C5_TagsThenPieces ==
    sw_phase = "returned" =>
        /\ Len(subword_labels) = 1
        /\ WithoutX(subword_labels[1]) = tags
        /\ Len(subword_labels[1]) = Len(tags) + SumSeq(subword_counts)
        /\ \A i \in 1..Len(tags) :
              /\ subword_labels[1][TagPosition(i)] = tags[i]
              /\ \A k \in 1..subword_counts[i] :
                    subword_labels[1][TagPosition(i) + k] = "X"

\* C5 witness: a word split into three pieces between two whole words
C5_Witness ==
    /\ sw_phase = "returned"
    /\ tags = <<"B-c1", "I-c1", "O">>
    /\ subword_counts = <<0, 2, 0>>
    /\ subword_labels = << <<"B-c1", "I-c1", "X", "X", "O">> >>

(***************************************************************************)
(* cyBERT: padded_labels = [pad(x[:256], '[PAD]', 256) for x in ...]       *)
(***************************************************************************)
PAD_WIDTH == 256
PadEdge == 2       \* labels drawn freely at each end of an input list

\* def pad(l, content, width): l.extend([content] * (width - len(l)))
PadExtend(l, content, width) == l \o Repeat(content, width - Len(l))

SliceCopyAliased(h, x, n) == [heap |-> h, ref |-> x]
\* x[:256]: a new list object holding the first n entries of x
SliceCopy(h, x, n) ==
    [heap |-> [a \in DOMAIN h \cup {Cardinality(DOMAIN h) + 1} |->
                 IF a \in DOMAIN h THEN h[a] ELSE PySlice(h[x], 0, n)],
     ref |-> Cardinality(DOMAIN h) + 1]

\* Sub-word label lists: free labels at both ends and a run of 'X' between,
\* with total lengths around 0 and around 256.
PadInputs ==
    {p \o Repeat("X", f) \o q :
        p \in SeqUpTo({"O", "X"}, PadEdge),
        q \in SeqUpTo({"O", "X"}, PadEdge),
        f \in {0} \cup ((PAD_WIDTH - 2 * PadEdge - 1)..(PAD_WIDTH + 1))}

PadInit ==
    /\ x_before \in PadInputs
    /\ heap = [a \in {1} |-> x_before]
    /\ x_ref = 1
    /\ arg_ref = 0
    /\ padded_labels = <<>>
    /\ pad_phase = "slice"

PadIdle ==
    /\ x_before = <<>>
    /\ heap = [a \in {1} |-> <<>>]
    /\ x_ref = 1
    /\ arg_ref = 0
    /\ padded_labels = <<>>
    /\ pad_phase = "idle"

\* the argument x[:256] is evaluated
PadSlice ==
    /\ pad_phase = "slice"
    /\ heap' = SliceCopy(heap, x_ref, PAD_WIDTH).heap
    /\ arg_ref' = SliceCopy(heap, x_ref, PAD_WIDTH).ref
    /\ pad_phase' = "pad"
    /\ UNCHANGED <<x_ref, x_before, padded_labels>>
    /\ UNCHANGED notPad

\* pad extends its argument in place and returns it; the comprehension
\* collects the returned list
PadCall ==
    /\ pad_phase = "pad"
    /\ heap' = [heap EXCEPT ![arg_ref] = PadExtend(@, "[PAD]", PAD_WIDTH)]
    /\ padded_labels' = Append(padded_labels, arg_ref)
    /\ pad_phase' = "done"
    /\ UNCHANGED <<x_ref, x_before, arg_ref>>
    /\ UNCHANGED notPad

PadNext ==
    \/ PadSlice
    \/ PadCall

\* C6: every entry of padded_labels has length 256: the first 256 labels of
\* a longer list, or the whole of a shorter one followed by '[PAD]' up to
\* 256; the list in subword_labels is left as it was.
C6_PaddedTo256 ==
    pad_phase = "done" =>
        /\ Len(padded_labels) = 1
        /\ Len(heap[padded_labels[1]]) = 256
        /\ \A i \in 1..256 :
              heap[padded_labels[1]][i] =
                 IF i <= Len(x_before) THEN x_before[i] ELSE "[PAD]"
        /\ heap[x_ref] = x_before

\* C6 witness: a list of more than 256 labels has been cut to 256
C6_Witness ==
    /\ pad_phase = "done"
    /\ Len(x_before) > 256
    /\ x_before[257] = "O"
    /\ Len(heap[padded_labels[1]]) = 256

(***************************************************************************)
(* cyBERT: evaluation loop                                                 *)
(***************************************************************************)
SeqLen == 3        \* positions of an example (256 in the notebook)

\* label_values = list(set(...)); label_values[:0] = ['[PAD]']
label_values == <<"[PAD]", "O">>

\* label2id = {t: i for i, t in enumerate(label_values)}; label2id.update({'X': -100})
label2id ==
    [t \in {label_values[i] : i \in 1..Len(label_values)} \cup {"X"} |->
        IF t = "X" THEN -100
        ELSE (CHOOSE i \in 1..Len(label_values) : label_values[i] = t) - 1]

\* id2label={label2id[key] : key for key in label2id.keys()}
IdSet == {label2id[t] : t \in DOMAIN label2id}
id2label == [n \in IdSet |-> CHOOSE t \in DOMAIN label2id : label2id[t] = n]

\* num_labels=len(label2id): the classes torch.argmax can return
PredictedIds == 0..(Cardinality(DOMAIN label2id) - 1)

ComparedAlsoPad(lab) == id2label[lab] # "X"
\* if id2label[label_ids[i][j]] != "X" and id2label[label_ids[i][j]] != "[PAD]"
Compared(lab) == id2label[lab] # "X" /\ id2label[lab] # "[PAD]"

\* for j, m in enumerate(mask): ...   j is the 1-based position reached;
\* the result is [raised, temp_1, temp_2]: id2label[logits[i][j]] raises
\* KeyError for a class that is no key of id2label.
RECURSIVE MaskLoop(_, _, _, _, _, _)
MaskLoop(mask, labs, preds, j, temp_1, temp_2) ==
    IF j > Len(mask) THEN [raised |-> FALSE, temp_1 |-> temp_1, temp_2 |-> temp_2]
    ELSE IF mask[j] # 0
      THEN IF Compared(labs[j])
             THEN IF preds[j] \in DOMAIN id2label
                    THEN MaskLoop(mask, labs, preds, j + 1,
                                  Append(temp_1, id2label[labs[j]]),
                                  Append(temp_2, id2label[preds[j]]))
                    ELSE [raised |-> TRUE,
                          temp_1 |-> Append(temp_1, id2label[labs[j]]),
                          temp_2 |-> temp_2]
             ELSE MaskLoop(mask, labs, preds, j + 1, temp_1, temp_2)
    ELSE \* break
         [raised |-> FALSE, temp_1 |-> temp_1, temp_2 |-> temp_2]

EvInit ==
    /\ input_mask \in [1..SeqLen -> {0, 1}]
    /\ label_ids \in [1..SeqLen -> IdSet]
    /\ logits \in [1..SeqLen -> PredictedIds]
    /\ y_true = <<>>
    /\ y_pred = <<>>
    /\ ev_phase = "batch"

EvIdle ==
    /\ input_mask = <<>>
    /\ label_ids = <<>>
    /\ logits = <<>>
    /\ y_true = <<>>
    /\ y_pred = <<>>
    /\ ev_phase = "idle"

\* the loop over the example's positions ends; y_true.append(temp_1);
\* y_pred.append(temp_2)
EvAppend ==
    /\ ev_phase = "batch"
    /\ ~MaskLoop(input_mask, label_ids, logits, 1, <<>>, <<>>).raised
    /\ y_true' = Append(y_true, MaskLoop(input_mask, label_ids, logits, 1, <<>>, <<>>).temp_1)
    /\ y_pred' = Append(y_pred, MaskLoop(input_mask, label_ids, logits, 1, <<>>, <<>>).temp_2)
    /\ ev_phase' = "done"
    /\ UNCHANGED <<input_mask, label_ids, logits>>
    /\ UNCHANGED notEv

\* KeyError inside the loop: the cell stops, nothing is appended
EvKeyError ==
    /\ ev_phase = "batch"
    /\ MaskLoop(input_mask, label_ids, logits, 1, <<>>, <<>>).raised
    /\ ev_phase' = "error"
    /\ UNCHANGED <<input_mask, label_ids, logits, y_true, y_pred>>
    /\ UNCHANGED notEv

EvNext ==
    \/ EvAppend
    \/ EvKeyError

\* positions before the first mask 0 whose true label is a real label
ComparedPositions ==
    {j \in 1..Len(input_mask) :
        /\ \A i \in 1..j : input_mask[i] # 0
        /\ id2label[label_ids[j]] \notin {"X", "[PAD]"}}

\* the k-th smallest element of a set of positions
KthPosition(S, k) == CHOOSE j \in S : Cardinality({i \in S : i < j}) = k - 1

\* C7: for every validation example the lists appended to y_true and y_pred
\* have equal length and hold the true and the predicted label of the same
\* positions: those before the first mask 0 whose true label is neither 'X'
\* nor '[PAD]'; y_true contains neither.
C7_PairedLabels ==
    /\ Len(y_true) = Len(y_pred)
    /\ ev_phase = "done" =>
          /\ Len(y_true) = 1
          /\ Len(y_true[1]) = Cardinality(ComparedPositions)
          /\ Len(y_pred[1]) = Cardinality(ComparedPositions)
          /\ \A k \in 1..Cardinality(ComparedPositions) :
                /\ y_true[1][k] = id2label[label_ids[KthPosition(ComparedPositions, k)]]
                /\ y_pred[1][k] = id2label[logits[KthPosition(ComparedPositions, k)]]
          /\ \A k \in 1..Len(y_true[1]) : y_true[1][k] \notin {"X", "[PAD]"}

\* C7 witness: a sub-word piece is skipped, the word after it is compared
\* with its own prediction, and the loop has stopped at a mask 0 before a
\* position that would otherwise count
C7_Witness ==
    /\ ev_phase = "done"
    /\ input_mask = <<1, 1, 0>>
    /\ id2label[label_ids[1]] = "X" /\ id2label[label_ids[2]] = "O"
    /\ id2label[label_ids[3]] = "O"
    /\ id2label[logits[2]] = "[PAD]" /\ id2label[logits[3]] = "O"
    /\ y_true = << <<"O">> >>
    /\ y_pred = << <<"[PAD]">> >>

(***************************************************************************)
(* XGBoost demo: split cell                                                *)
(***************************************************************************)
MaxRows == 4       \* rows of the simulated dataset

\* np.c_[labels, features]: a row is <<label, feature>>, both from randint(2)
SimulatedRows == {<<l, f>> : l \in 0..1, f \in 0..1}

\* int(n_rows * train_size) with train_size = 0.80: the double nearest 0.8
\* lies above 4/5 by less than 2^-53, so the product rounds to a double not
\* below 4n/5 and below the next integer; int() truncates to floor(4n/5).
TrainIndex(n) == (n * 4) \div 5

\* dataset[:, 1:] and dataset[:, 0]
Features(d) == [i \in 1..Len(d) |-> Tail(d[i])]
Labels(d) == [i \in 1..Len(d) |-> d[i][1]]

RowsFromDroppingFirst(a, idx) == PySlice(a, idx + 1, Len(a))
\* a[:idx] and a[idx:]
RowsUpTo(a, idx) == PySlice(a, 0, idx)
RowsFrom(a, idx) == PySlice(a, idx, Len(a))

XsInit ==
    /\ simulated \in SeqUpTo(SimulatedRows, MaxRows)
    /\ Len(simulated) >= 1                 \* n_rows is a positive setting
    /\ dataset = simulated
    /\ n_rows = 0 /\ train_index = 0 /\ total = 0
    /\ X = <<>> /\ y = <<>>
    /\ X_train = <<>> /\ y_train = <<>>
    /\ X_validation = <<>> /\ y_validation = <<>>
    /\ xs_phase = "shape"

XsIdle ==
    /\ simulated = <<>> /\ dataset = <<>>
    /\ n_rows = 0 /\ train_index = 0 /\ total = 0
    /\ X = <<>> /\ y = <<>>
    /\ X_train = <<>> /\ y_train = <<>>
    /\ X_validation = <<>> /\ y_validation = <<>>
    /\ xs_phase = "idle"

\* n_rows, n_columns = dataset.shape; train_index = int(n_rows * train_size)
XsShape ==
    /\ xs_phase = "shape"
    /\ n_rows' = Len(dataset)
    /\ train_index' = TrainIndex(Len(dataset))
    /\ xs_phase' = "xy"
    /\ UNCHANGED <<simulated, dataset, X, y, X_train, y_train,
                   X_validation, y_validation, total>>
    /\ UNCHANGED notXs

\* X, y = dataset[:, 1:], dataset[:, 0]; del dataset
XsSplitXy ==
    /\ xs_phase = "xy"
    /\ X' = Features(dataset)
    /\ y' = Labels(dataset)
    /\ dataset' = <<>>
    /\ xs_phase' = "train"
    /\ UNCHANGED <<simulated, n_rows, train_index, X_train, y_train,
                   X_validation, y_validation, total>>
    /\ UNCHANGED notXs

\* X_train, y_train = X[:train_index, :], y[:train_index]
XsSplitTrain ==
    /\ xs_phase = "train"
    /\ X_train' = RowsUpTo(X, train_index)
    /\ y_train' = RowsUpTo(y, train_index)
    /\ xs_phase' = "validation"
    /\ UNCHANGED <<simulated, dataset, n_rows, train_index, X, y,
                   X_validation, y_validation, total>>
    /\ UNCHANGED notXs

\* X_validation, y_validation = X[train_index:, :], y[train_index:]
XsSplitValidation ==
    /\ xs_phase = "validation"
    /\ X_validation' = RowsFrom(X, train_index)
    /\ y_validation' = RowsFrom(y, train_index)
    /\ xs_phase' = "check"
    /\ UNCHANGED <<simulated, dataset, n_rows, train_index, X, y,
                   X_train, y_train, total>>
    /\ UNCHANGED notXs

\* total = X_train.shape[0] + X_validation.shape[0]
XsCheckDimensions ==
    /\ xs_phase = "check"
    /\ total' = Len(X_train) + Len(X_validation)
    /\ xs_phase' = "done"
    /\ UNCHANGED <<simulated, dataset, n_rows, train_index, X, y,
                   X_train, y_train, X_validation, y_validation>>
    /\ UNCHANGED notXs

XsNext ==
    \/ XsShape
    \/ XsSplitXy
    \/ XsSplitTrain
    \/ XsSplitValidation
    \/ XsCheckDimensions

\* C8: the training set is the first int(n*0.80) rows and the validation
\* set the remaining ones: together they are every row once, in order, and
\* the k-th feature row of each set has the label of the same dataset row.
C8_SplitAligned ==
    xs_phase \in {"check", "done"} =>
        /\ Len(X_train) = (4 * Len(simulated)) \div 5
        /\ Len(y_train) = Len(X_train)
        /\ Len(y_validation) = Len(X_validation)
        /\ Len(X_train) + Len(X_validation) = Len(simulated)
        /\ \A k \in 1..Len(X_train) :
              <<y_train[k]>> \o X_train[k] = simulated[k]
        /\ \A k \in 1..Len(X_validation) :
              <<y_validation[k]>> \o X_validation[k] = simulated[Len(X_train) + k]
        /\ xs_phase = "done" => total = Len(simulated)

\* C8 witness: four distinct rows, three go to training and the last one,
\* with its own label, to validation
C8_Witness ==
    /\ xs_phase = "done"
    /\ simulated = << <<0, 0>>, <<0, 1>>, <<1, 0>>, <<1, 1>> >>
    /\ y_train = <<0, 0, 1>>
    /\ X_validation = << <<1>> >>
    /\ y_validation = <<1>>

(***************************************************************************)
(* forest inference demo: XGBoost predictions against FIL                  *)
(***************************************************************************)
Half == 2          \* raw probabilities are k / (2 * Half), k in 0..2*Half
MaxValidation == 3 \* validation rows

Den == 2 * Half

\* threshold=0.50 as a numerator over Den
Threshold == Half

NpAroundHalfUp(k) == IF 2 * (k % Den) >= Den THEN (k \div Den) + 1 ELSE k \div Den
\* np.around rounds to the nearest integer and a tie to the even one
NpAround(k) ==
    IF 2 * (k % Den) < Den THEN k \div Den
    ELSE IF 2 * (k % Den) > Den THEN (k \div Den) + 1
    ELSE IF (k \div Den) % 2 = 0 THEN k \div Den
    ELSE (k \div Den) + 1

\* output_class=True: 1 or 0 depending on whether the raw prediction
\* exceeds the threshold
FilClass(k, threshold) == IF k > threshold THEN 1 ELSE 0

\* bst.save_model(model_path) and the reading of that file by
\* ForestInference.load(..., model_type='xgboost')
SaveModel(bst) == <<"xgboost">> \o bst
LoadModel(file) == Tail(file)

FilInit ==
    /\ xgboost_model = <<>>
    /\ model_file = <<>>
    /\ fm = <<>>
    /\ trained_model_preds = <<>>
    /\ fil_preds = <<>>
    /\ preds_same = FALSE
    /\ fil_phase = "train"

FilIdle ==
    /\ xgboost_model = <<>>
    /\ model_file = <<>>
    /\ fm = <<>>
    /\ trained_model_preds = <<>>
    /\ fil_preds = <<>>
    /\ preds_same = FALSE
    /\ fil_phase = "idle"

\* xgboost_model = train_xgboost_model(...): xgb.train, then save_model
FilTrainXgboost ==
    /\ fil_phase = "train"
    /\ \E bst \in [1..MaxValidation -> 0..Den] :
          /\ xgboost_model' = bst
          /\ model_file' = SaveModel(bst)
    /\ fil_phase' = "predict"
    /\ UNCHANGED <<fm, trained_model_preds, fil_preds, preds_same>>
    /\ UNCHANGED notFil

\* trained_model_preds = predict_xgboost_model(X_validation, ...)
FilPredictXgboost ==
    /\ fil_phase = "predict"
    /\ trained_model_preds' =
          [i \in 1..Len(xgboost_model) |-> NpAround(xgboost_model[i])]
    /\ fil_phase' = "load"
    /\ UNCHANGED <<xgboost_model, model_file, fm, fil_preds, preds_same>>
    /\ UNCHANGED notFil

\* fm = ForestInference.load(filename=model_path, ...)
FilLoad ==
    /\ fil_phase = "load"
    /\ fm' = LoadModel(model_file)
    /\ fil_phase' = "fil"
    /\ UNCHANGED <<xgboost_model, model_file, trained_model_preds, fil_preds,
                   preds_same>>
    /\ UNCHANGED notFil

\* fil_preds = fm.predict(X_validation)
FilPredict ==
    /\ fil_phase = "fil"
    /\ fil_preds' = [i \in 1..Len(fm) |-> FilClass(fm[i], Threshold)]
    /\ fil_phase' = "compare"
    /\ UNCHANGED <<xgboost_model, model_file, fm, trained_model_preds,
                   preds_same>>
    /\ UNCHANGED notFil

\* array_equal(trained_model_preds, fil_preds)
FilCompare ==
    /\ fil_phase = "compare"
    /\ preds_same' = (trained_model_preds = fil_preds)
    /\ fil_phase' = "done"
    /\ UNCHANGED <<xgboost_model, model_file, fm, trained_model_preds,
                   fil_preds>>
    /\ UNCHANGED notFil

FilNext ==
    \/ FilTrainXgboost
    \/ FilPredictXgboost
    \/ FilLoad
    \/ FilPredict
    \/ FilCompare

\* C9: for every validation row np.around of the XGBoost raw probability is
\* the class FIL returns with threshold 0.50, a raw value of exactly 0.5
\* giving 0 on both sides; array_equal reports True.
C9_SameClasses ==
    /\ fil_phase \in {"compare", "done"} =>
          /\ Len(fil_preds) = Len(trained_model_preds)
          /\ \A i \in 1..Len(fil_preds) :
                /\ fil_preds[i] = trained_model_preds[i]
                /\ xgboost_model[i] = Half => fil_preds[i] = 0
    /\ fil_phase = "done" => preds_same

\* C9 witness: rows with raw values below, at and above 0.5 were compared
C9_Witness ==
    /\ fil_phase = "done"
    /\ xgboost_model = <<Half - 1, Half, Half + 1>>
    /\ trained_model_preds = <<0, 0, 1>>
    /\ fil_preds = <<0, 0, 1>>

(***************************************************************************)
(* random forest demo: pickling the cuML model                             *)
(***************************************************************************)
MaxTest == 2       \* rows of X_cudf_test

Forests == [1..MaxTest -> 0..1]

\* pickle.dumps / pickle.loads of the model: a tagged byte string
Dumps(model) == <<"cuml.RandomForestClassifier">> \o model
Loadable(bytes) == bytes # <<>> /\ Head(bytes) = "cuml.RandomForestClassifier"
Loads(bytes) == Tail(bytes)

WriteBinaryUnflushed(old, bytes) == old
\* open(filename, 'wb') truncates the file, dump writes to the file object,
\* and the unnamed file object is released, and so flushed and closed, when
\* the statement ends
WriteBinary(old, bytes) == bytes

\* model.predict(X_cudf_test)
RfPredictions(model) == [i \in 1..MaxTest |-> model[i]]

\* accuracy_score(y_test, preds), as the number of rows that agree
AccuracyScore(truth, preds) == Cardinality({i \in 1..Len(truth) : truth[i] = preds[i]})

RfInit ==
    /\ cuml_model = <<>>
    /\ y_test \in Forests
    /\ sav_file \in {<<>>} \cup {Dumps(m) : m \in Forests}   \* absent, or left by an earlier run
    /\ pickled_cuml_model = <<>>
    /\ fil_preds_orig = <<>>
    /\ pred_after_pickling = <<>>
    /\ fil_acc_orig = -1
    /\ fil_acc_after_pickling = -1
    /\ rf_phase = "fit"

RfIdle ==
    /\ cuml_model = <<>>
    /\ y_test = <<>>
    /\ sav_file = <<>>
    /\ pickled_cuml_model = <<>>
    /\ fil_preds_orig = <<>>
    /\ pred_after_pickling = <<>>
    /\ fil_acc_orig = -1
    /\ fil_acc_after_pickling = -1
    /\ rf_phase = "idle"

\* cuml_model = curfc(...); cuml_model.fit(X_cudf_train, y_cudf_train)
RfFit ==
    /\ rf_phase = "fit"
    /\ cuml_model' \in Forests
    /\ rf_phase' = "orig"
    /\ UNCHANGED <<y_test, sav_file, pickled_cuml_model, fil_preds_orig,
                   fil_acc_orig, pred_after_pickling, fil_acc_after_pickling>>
    /\ UNCHANGED notRf

\* fil_preds_orig = cuml_model.predict(X_cudf_test); fil_acc_orig = ...
RfPredictOrig ==
    /\ rf_phase = "orig"
    /\ fil_preds_orig' = RfPredictions(cuml_model)
    /\ fil_acc_orig' = AccuracyScore(y_test, RfPredictions(cuml_model))
    /\ rf_phase' = "dump"
    /\ UNCHANGED <<cuml_model, y_test, sav_file, pickled_cuml_model,
                   pred_after_pickling, fil_acc_after_pickling>>
    /\ UNCHANGED notRf

\* pickle.dump(cuml_model, open(filename, 'wb'))
RfDump ==
    /\ rf_phase = "dump"
    /\ sav_file' = WriteBinary(sav_file, Dumps(cuml_model))
    /\ rf_phase' = "del"
    /\ UNCHANGED <<cuml_model, y_test, pickled_cuml_model, fil_preds_orig,
                   fil_acc_orig, pred_after_pickling, fil_acc_after_pickling>>
    /\ UNCHANGED notRf

\* del cuml_model
RfDel ==
    /\ rf_phase = "del"
    /\ cuml_model' = <<>>
    /\ rf_phase' = "load"
    /\ UNCHANGED <<y_test, sav_file, pickled_cuml_model, fil_preds_orig,
                   fil_acc_orig, pred_after_pickling, fil_acc_after_pickling>>
    /\ UNCHANGED notRf

\* pickled_cuml_model = pickle.load(open(filename, 'rb')); load raises on a
\* file that holds no pickle
RfLoad ==
    /\ rf_phase = "load"
    /\ IF Loadable(sav_file)
         THEN /\ pickled_cuml_model' = Loads(sav_file)
              /\ rf_phase' = "after"
         ELSE /\ pickled_cuml_model' = pickled_cuml_model
              /\ rf_phase' = "error"
    /\ UNCHANGED <<cuml_model, y_test, sav_file, fil_preds_orig,
                   fil_acc_orig, pred_after_pickling, fil_acc_after_pickling>>
    /\ UNCHANGED notRf

\* pred_after_pickling = pickled_cuml_model.predict(X_cudf_test); ...
RfPredictPickled ==
    /\ rf_phase = "after"
    /\ pred_after_pickling' = RfPredictions(pickled_cuml_model)
    /\ fil_acc_after_pickling' = AccuracyScore(y_test, RfPredictions(pickled_cuml_model))
    /\ rf_phase' = "done"
    /\ UNCHANGED <<cuml_model, y_test, sav_file, pickled_cuml_model,
                   fil_preds_orig, fil_acc_orig>>
    /\ UNCHANGED notRf

RfNext ==
    \/ RfFit
    \/ RfPredictOrig
    \/ RfDump
    \/ RfDel
    \/ RfLoad
    \/ RfPredictPickled

MaxDomains == 5    \* rows of gdf

GdfRows == 1..MaxDomains

\* int(n * train_size) rows go to the training part: for train_size 0.7
\* and the row counts used here that is floor(7n/10)
DgaTrainRows(n) == (n * 7) \div 10

\* a shuffled split: any k of the rows can be the training part
ShuffledTrainParts(rows, k) == {S \in SUBSET rows : Cardinality(S) = k}

DgaInit ==
    /\ dd = {}
    /\ model_bin = {}
    /\ dga_detector = {}
    /\ domain_test = {}
    /\ scored = {}
    /\ dga_phase = "train"

DgaIdle ==
    /\ dd = {}
    /\ model_bin = {}
    /\ dga_detector = {}
    /\ domain_test = {}
    /\ scored = {}
    /\ dga_phase = "idle"

\* dd.train_model(train_data, labels, ..., train_size=0.7): the detector
\* splits the rows it is given and fits on the training part
DgaTrainModel ==
    /\ dga_phase = "train"
    /\ dd' \in ShuffledTrainParts(GdfRows, DgaTrainRows(MaxDomains))
    /\ dga_phase' = "save"
    /\ UNCHANGED <<model_bin, dga_detector, domain_test, scored>>
    /\ UNCHANGED notDga

\* dd.save_model(model_filepath)
DgaSaveModel ==
    /\ dga_phase = "save"
    /\ model_bin' = dd
    /\ dga_phase' = "load"
    /\ UNCHANGED <<dd, dga_detector, domain_test, scored>>
    /\ UNCHANGED notDga

\* dga_detector = DGADetector(); dga_detector.load_model(model_filepath)
DgaLoadModel ==
    /\ dga_phase = "load"
    /\ dga_detector' = model_bin
    /\ dga_phase' = "split"
    /\ UNCHANGED <<dd, model_bin, domain_test, scored>>
    /\ UNCHANGED notDga

\* domain_train, domain_test, type_train, type_test =
\*     train_test_split(gdf, "type", train_size=0.7)
DgaSplitAgain ==
    /\ dga_phase = "split"
    /\ \E domain_train \in ShuffledTrainParts(GdfRows, DgaTrainRows(MaxDomains)) :
          domain_test' = GdfRows \ domain_train
    /\ dga_phase' = "predict"
    /\ UNCHANGED <<dd, model_bin, dga_detector, scored>>
    /\ UNCHANGED notDga

\* for chunk in test_dataloader.get_chunks(): dga_detector.predict(chunk['domain'])
DgaPredictChunks ==
    /\ dga_phase = "predict"
    /\ scored' = domain_test
    /\ dga_phase' = "done"
    /\ UNCHANGED <<dd, model_bin, dga_detector, domain_test>>
    /\ UNCHANGED notDga

DgaNext ==
    \/ DgaTrainModel
    \/ DgaSaveModel
    \/ DgaLoadModel
    \/ DgaSplitAgain
    \/ DgaPredictChunks

\* C11: no domain passed to dga_detector.predict in the inference cell
\* belongs to the 70% training part the loaded model was fitted on.
C11_HeldOutTest ==
    dga_phase = "done" => scored \cap dga_detector = {}

(***************************************************************************)
(* asset classification: train_test_split and the label listings           *)
(***************************************************************************)
MaxEvents == 4     \* rows of win_events_gdf
MaxLabel == 1      \* labels are 0..MaxLabel

EventRows == 1..MaxEvents

\* int(n * train_size) rows go to the training part: for train_size 0.9
\* the double nearest 0.9 lies just above 9/10, so this is floor(9n/10)
AssetTrainRows(n) == (n * 9) \div 10

\* the label column restricted to a set of rows, in row order
RECURSIVE LabelsOf(_, _, _)
LabelsOf(gdf, rows, i) ==
    IF i > Len(gdf) THEN <<>>
    ELSE (IF i \in rows THEN <<gdf[i]>> ELSE <<>>) \o LabelsOf(gdf, rows, i + 1)

\* Series.unique(): the distinct values
Unique(series) == {series[i] : i \in 1..Len(series)}

AsInit ==
    /\ win_events_gdf \in [EventRows -> 0..MaxLabel]
    /\ X_test = {}
    /\ Y_train = <<>>
    /\ Y_test = <<>>
    /\ train_unique = {}
    /\ test_unique = {}
    /\ as_phase = "split"

AsIdle ==
    /\ win_events_gdf = <<>>
    /\ X_test = {}
    /\ Y_train = <<>>
    /\ Y_test = <<>>
    /\ train_unique = {}
    /\ test_unique = {}
    /\ as_phase = "idle"

\* X_train, X_test, Y_train, Y_test =
\*     train_test_split(win_events_gdf, "label", train_size=0.9)
AsTrainTestSplit ==
    /\ as_phase = "split"
    /\ \E train_rows \in ShuffledTrainParts(EventRows, AssetTrainRows(MaxEvents)) :
          /\ X_test' = EventRows \ train_rows
          /\ Y_train' = LabelsOf(win_events_gdf, train_rows, 1)
          /\ Y_test' = LabelsOf(win_events_gdf, EventRows \ train_rows, 1)
    /\ as_phase' = "train_labels"
    /\ UNCHANGED <<win_events_gdf, train_unique, test_unique>>
    /\ UNCHANGED notAs

\* Y_train.unique()
AsTrainUnique ==
    /\ as_phase = "train_labels"
    /\ train_unique' = Unique(Y_train)
    /\ as_phase' = "test_labels"
    /\ UNCHANGED <<win_events_gdf, X_test, Y_train, Y_test, test_unique>>
    /\ UNCHANGED notAs

\* Y_test.unique()
AsTestUnique ==
    /\ as_phase = "test_labels"
    /\ test_unique' = Unique(Y_test)
    /\ as_phase' = "done"
    /\ UNCHANGED <<win_events_gdf, X_test, Y_train, Y_test, train_unique>>
    /\ UNCHANGED notAs

AsNext ==
    \/ AsTrainTestSplit
    \/ AsTrainUnique
    \/ AsTestUnique

\* C12: after the split every label value present in the dataset occurs
\* at least once in Y_test, whatever the split drew.
C12_TestHasAllLabels ==
    as_phase = "done" => test_unique = Unique(win_events_gdf)

(***************************************************************************)
(* K-Means: comparison of the adjusted Rand scores                         *)
(***************************************************************************)
MaxScore == 5      \* scores range over -MaxScore..MaxScore units

\* threshold = 1e-4, a score unit being half of it
kmeans_threshold == 2

\* passed = (cuml_score - sk_score) < threshold
Passed(cuml, sk, thr) == (cuml - sk) < thr

\* 'equal' if passed else 'NOT equal'
Verdict(p) == IF p THEN "equal" ELSE "NOT equal"

KmInit ==
    /\ cuml_score = 0
    /\ sk_score = 0
    /\ passed = FALSE
    /\ printed = ""
    /\ km_phase = "score"

KmIdle ==
    /\ cuml_score = 0
    /\ sk_score = 0
    /\ passed = FALSE
    /\ printed = ""
    /\ km_phase = "idle"

\* cuml_score = adjusted_rand_score(host_labels, kmeans_cuml.labels_.to_array())
\* sk_score = adjusted_rand_score(host_labels, kmeans_sk.labels_)
KmScores ==
    /\ km_phase = "score"
    /\ cuml_score' \in (-MaxScore)..MaxScore
    /\ sk_score' \in (-MaxScore)..MaxScore
    /\ km_phase' = "compare"
    /\ UNCHANGED <<passed, printed>>
    /\ UNCHANGED notKm

\* threshold = 1e-4; passed = (cuml_score - sk_score) < threshold
KmCompare ==
    /\ km_phase = "compare"
    /\ passed' = Passed(cuml_score, sk_score, kmeans_threshold)
    /\ km_phase' = "print"
    /\ UNCHANGED <<cuml_score, sk_score, printed>>
    /\ UNCHANGED notKm

\* print('compare kmeans: cuml vs sklearn labels_ are ' + ...)
KmPrint ==
    /\ km_phase = "print"
    /\ printed' = Verdict(passed)
    /\ km_phase' = "done"
    /\ UNCHANGED <<cuml_score, sk_score, passed>>
    /\ UNCHANGED notKm

KmNext ==
    \/ KmScores
    \/ KmCompare
    \/ KmPrint

\* the absolute difference of the two scores
AbsDiff(a, b) == IF a >= b THEN a - b ELSE b - a

\* C13: the cell prints 'equal' only if the two scores differ by less than
\* the threshold in absolute value, and 'NOT equal' otherwise.
C13_EqualIffWithinThreshold ==
    km_phase = "done" =>
        (printed = "equal" <=> AbsDiff(cuml_score, sk_score) < kmeans_threshold)

(***************************************************************************)
(* Specifications                                                          *)
(***************************************************************************)
OthersIdle(own) ==
    /\ own = "dl" \/ DlIdle
    /\ own = "imp" \/ ImpIdle
    /\ own = "pl" \/ PlIdle
    /\ own = "lb" \/ LbIdle
    /\ own = "sw" \/ SwIdle
    /\ own = "pad" \/ PadIdle
    /\ own = "ev" \/ EvIdle
    /\ own = "xs" \/ XsIdle
    /\ own = "fil" \/ FilIdle
    /\ own = "rf" \/ RfIdle
    /\ own = "dga" \/ DgaIdle
    /\ own = "as" \/ AsIdle
    /\ own = "km" \/ KmIdle

InitDownload == DlInit /\ OthersIdle("dl")
SpecDownload == InitDownload /\ [][DlNext]_vars

InitImport == ImpInit /\ OthersIdle("imp")
SpecImport == InitImport /\ [][ImpNext]_vars

InitPipeline == PlInit /\ OthersIdle("pl")
SpecPipeline == InitPipeline /\ [][PlNext]_vars

InitLabeler == LbInit /\ OthersIdle("lb")
SpecLabeler == InitLabeler /\ [][LbNext]_vars

InitSubword == SwInit /\ OthersIdle("sw")
SpecSubword == InitSubword /\ [][SwNext]_vars

InitPad == PadInit /\ OthersIdle("pad")
SpecPad == InitPad /\ [][PadNext]_vars

InitEval == EvInit /\ OthersIdle("ev")
SpecEval == InitEval /\ [][EvNext]_vars

InitSplit == XsInit /\ OthersIdle("xs")
SpecSplit == InitSplit /\ [][XsNext]_vars

InitFil == FilInit /\ OthersIdle("fil")
SpecFil == InitFil /\ [][FilNext]_vars

InitPickle == RfInit /\ OthersIdle("rf")
SpecPickle == InitPickle /\ [][RfNext]_vars

InitDga == DgaInit /\ OthersIdle("dga")
SpecDga == InitDga /\ [][DgaNext]_vars

InitAsset == AsInit /\ OthersIdle("as")
SpecAsset == InitAsset /\ [][AsNext]_vars

InitKmeans == KmInit /\ OthersIdle("km")
SpecKmeans == InitKmeans /\ [][KmNext]_vars

====
